---- MODULE Spec2Model ----
(***************************************************************************)
(* SchedulingEngine (schedulingEngine.ts, bundled in scheduleRoutes.ts):   *)
(* busy periods -> available slots, priority scoring, task chunking and    *)
(* the greedy allocation sweep of generateSchedule; and the routes         *)
(* POST /:userId/generate and GET /:userId that fetch, generate and store. *)
(*                                                                         *)
(* Numbers.  Minutes of a day are integers, as in the code.  A task's      *)
(* estimatedHours is a count of 1/HourUnits hours and the clock and the    *)
(* due dates are counts of 1/DayTicks days, so that every division and     *)
(* Math.ceil of the code is computed on exact fractions.  A priority       *)
(* score is a fraction <<numerator, denominator>> in lowest terms.         *)
(***************************************************************************)
EXTENDS Integers, Sequences, FiniteSets, TLC

VARIABLES
    now,                 \* new Date() of the run, in clock ticks
    config,              \* this.config
    tasks,               \* generateSchedule's tasks argument
    timeBlocks,          \* generateSchedule's timeBlocks argument
    pc,                  \* position inside generateSchedule
    incompleteTasks,     \* local: tasks.filter(task => !task.completed)
    availableSlotsByDay, \* local: one slot list per day
    priorityResults,     \* local
    taskChunks,          \* local: the chunk queue
    cursor,              \* index of the running for-loop (1-based)
    sessions,            \* local: sessions pushed so far
    usedSlots,           \* local: Set of slot keys
    schedule,            \* the returned GeneratedSchedule, <<>> until returned
    previous,            \* sessions returned by an earlier call on the same inputs
    todos,               \* the user's documents of the "todos" collection
    generatedSchedules,  \* the user's document of "generatedSchedules", <<>> if none
    requests,            \* the POST /:userId/generate requests in flight
    lastGet              \* response of the latest GET /:userId, <<>> if none yet

\* what lives outside one call of generateSchedule
outer == <<previous, todos, generatedSchedules, requests, lastGet>>

vars == <<now, config, tasks, timeBlocks, pc, incompleteTasks, availableSlotsByDay,
          priorityResults, taskChunks, cursor, sessions, usedSlots, schedule,
          previous, todos, generatedSchedules, requests, lastGet>>

----------------------------------------------------------------------------
(* Bounds of the model *)

MaxTasks == 2
MaxBlocks == 2
HourUnits == 16
DayTicks == 2
MaxNow == 1
MaxDueDays == 6
MaxEffortHours == 20

(* Constants of the program *)

NumDays == 7
EndOfDay == 1440
MinutesPerHour == 60
DefaultEstimatedHours == 1
HoursPerDayLimit == 8
Infinity == 1000000

DEFAULT_SCHEDULING_CONFIG ==
    [maxSessionLength |-> 60, minSessionLength |-> 5, bufferTime |-> 5,
     maxStudyHoursPerWeek |-> 20]

TBD == <<>>

----------------------------------------------------------------------------
(* Arithmetic of the JavaScript Number operations the engine uses *)

Max(a, b) == IF a >= b THEN a ELSE b

Min(a, b) == IF a <= b THEN a ELSE b

\* Math.ceil(a / b) for b > 0
CeilDiv(a, b) == -((-a) \div b)

RECURSIVE GCD(_, _)
GCD(a, b) == IF b = 0 THEN a ELSE GCD(b, a % b)

\* the fraction n/d (d > 0, n >= 0) in lowest terms
Rat(n, d) == LET g == GCD(n, d) IN <<n \div g, d \div g>>

\* a - b < 0, a - b = 0 on fractions
RatLess(a, b) == a[1] * b[2] < b[1] * a[2]

RatEq(a, b) == a[1] * b[2] = b[1] * a[2]

----------------------------------------------------------------------------
(* convertTimeBlocksToBusyTimeLists *)

\* Array.prototype.sort((a, b) => a.startTime - b.startTime): a stable sort
RECURSIVE InsertByStartTime(_, _)
InsertByStartTime(sorted, b) ==
    IF sorted = <<>> THEN <<b>>
    ELSE IF b.startTime < Head(sorted).startTime THEN <<b>> \o sorted
    ELSE <<Head(sorted)>> \o InsertByStartTime(Tail(sorted), b)

RECURSIVE SortByStartTime(_)
SortByStartTime(blocks) ==
    IF blocks = <<>> THEN <<>>
    ELSE InsertByStartTime(SortByStartTime(SubSeq(blocks, 1, Len(blocks) - 1)),
                           blocks[Len(blocks)])

\* the BusyTimeList of a day: its nodes' data [startTime, endTime], head first
convertTimeBlocksToBusyTimeLists(blocks) ==
    [day \in 0..(NumDays - 1) |->
        LET IsBusyOfDay(b) == b.type = "busy" /\ b.day = day
            dayTimeBlocks == SortByStartTime(SelectSeq(blocks, IsBusyOfDay))
        IN [i \in 1..Len(dayTimeBlocks) |->
               <<dayTimeBlocks[i].startTime, dayTimeBlocks[i].endTime>>]]

----------------------------------------------------------------------------
(* calculateAvailableTimeSlots *)

\* sortedBusyTimes.sort((a, b) => a[0] - b[0]): stable
RECURSIVE InsertByFirst(_, _)
InsertByFirst(sorted, p) ==
    IF sorted = <<>> THEN <<p>>
    ELSE IF p[1] < Head(sorted)[1] THEN <<p>> \o sorted
    ELSE <<Head(sorted)>> \o InsertByFirst(Tail(sorted), p)

RECURSIVE SortByFirst(_)
SortByFirst(pairs) ==
    IF pairs = <<>> THEN <<>>
    ELSE InsertByFirst(SortByFirst(SubSeq(pairs, 1, Len(pairs) - 1)), pairs[Len(pairs)])

\* mutant: currentTime is not advanced past a busy period
RECURSIVE SweepBusyTimes_NoAdvance(_, _, _)
SweepBusyTimes_NoAdvance(sortedBusyTimes, currentTime, day) ==
    IF sortedBusyTimes = <<>>
    THEN LET finalAvailableDuration == EndOfDay - currentTime - config.bufferTime
         IN IF finalAvailableDuration >= config.minSessionLength
            THEN << [start |-> currentTime + config.bufferTime,
                     end |-> EndOfDay - config.bufferTime,
                     duration |-> finalAvailableDuration,
                     day |-> day] >>
            ELSE <<>>
    ELSE LET startTime == Head(sortedBusyTimes)[1]
             availableDuration == startTime - currentTime - (config.bufferTime * 2)
             rest == SweepBusyTimes_NoAdvance(Tail(sortedBusyTimes), currentTime, day)
         IN IF availableDuration >= config.minSessionLength
            THEN << [start |-> currentTime + config.bufferTime,
                     end |-> startTime - config.bufferTime,
                     duration |-> availableDuration,
                     day |-> day] >> \o rest
            ELSE rest

\* mutant: the slot after the last busy period is held to both buffers
RECURSIVE SweepBusyTimes_SymmetricFinal(_, _, _)
SweepBusyTimes_SymmetricFinal(sortedBusyTimes, currentTime, day) ==
    IF sortedBusyTimes = <<>>
    THEN LET finalAvailableDuration == EndOfDay - currentTime - (config.bufferTime * 2)
         IN IF finalAvailableDuration >= config.minSessionLength
            THEN << [start |-> currentTime + config.bufferTime,
                     end |-> EndOfDay - config.bufferTime,
                     duration |-> finalAvailableDuration,
                     day |-> day] >>
            ELSE <<>>
    ELSE LET startTime == Head(sortedBusyTimes)[1]
             endTime == Head(sortedBusyTimes)[2]
             availableDuration == startTime - currentTime - (config.bufferTime * 2)
             rest == SweepBusyTimes_SymmetricFinal(Tail(sortedBusyTimes), endTime, day)
         IN IF availableDuration >= config.minSessionLength
            THEN << [start |-> currentTime + config.bufferTime,
                     end |-> startTime - config.bufferTime,
                     duration |-> availableDuration,
                     day |-> day] >> \o rest
            ELSE rest

\* the for-loop over sortedBusyTimes and the slot after the last busy period
RECURSIVE SweepBusyTimes(_, _, _)
SweepBusyTimes(sortedBusyTimes, currentTime, day) ==
    IF sortedBusyTimes = <<>>
    THEN LET finalAvailableDuration == EndOfDay - currentTime - config.bufferTime
         IN IF finalAvailableDuration >= config.minSessionLength
            THEN << [start |-> currentTime + config.bufferTime,
                     end |-> EndOfDay - config.bufferTime,
                     duration |-> finalAvailableDuration,
                     day |-> day] >>
            ELSE <<>>
    ELSE LET startTime == Head(sortedBusyTimes)[1]
             endTime == Head(sortedBusyTimes)[2]
             availableDuration == startTime - currentTime - (config.bufferTime * 2)
             rest == SweepBusyTimes(Tail(sortedBusyTimes), endTime, day)
         IN IF availableDuration >= config.minSessionLength
            THEN << [start |-> currentTime + config.bufferTime,
                     end |-> startTime - config.bufferTime,
                     duration |-> availableDuration,
                     day |-> day] >> \o rest
            ELSE rest

calculateAvailableTimeSlots(busyTimeList, day) ==
    SweepBusyTimes(SortByFirst(busyTimeList), 0, day)

----------------------------------------------------------------------------
(* calculatePriority *)

\* mutant: the effort limits of the tiers are inclusive
UrgencyTier_Inclusive(estimatedHours, daysUntilDue) ==
    IF daysUntilDue <= 0 THEN 100
    ELSE IF estimatedHours <= 3 * HourUnits /\ daysUntilDue <= 1 THEN 10
    ELSE IF estimatedHours <= 6 * HourUnits /\ daysUntilDue <= 2 THEN 8
    ELSE IF estimatedHours <= 12 * HourUnits /\ daysUntilDue <= 3 THEN 6
    ELSE IF estimatedHours <= 18 * HourUnits /\ daysUntilDue <= 4 THEN 4
    ELSE IF daysUntilDue <= 5 THEN 2
    ELSE 1

\* the if / else-if chain of urgency tiers; hours in 1/HourUnits
UrgencyTier(estimatedHours, daysUntilDue) ==
    IF daysUntilDue <= 0 THEN 100
    ELSE IF estimatedHours < 3 * HourUnits /\ daysUntilDue <= 1 THEN 10
    ELSE IF estimatedHours < 6 * HourUnits /\ daysUntilDue <= 2 THEN 8
    ELSE IF estimatedHours < 12 * HourUnits /\ daysUntilDue <= 3 THEN 6
    ELSE IF estimatedHours < 18 * HourUnits /\ daysUntilDue <= 4 THEN 4
    ELSE IF daysUntilDue <= 5 THEN 2
    ELSE 1

\* mutant: the overdue case of the second check is missing
ImpossibleDeadline_NoOverdue(urgencyMultiplier, estimatedHours, daysUntilDue) ==
    IF estimatedHours > daysUntilDue * HoursPerDayLimit * HourUnits THEN 50
    ELSE urgencyMultiplier

\* "Check for impossible deadlines"
ImpossibleDeadline(urgencyMultiplier, estimatedHours, daysUntilDue) ==
    IF daysUntilDue <= 0 THEN 100
    ELSE IF estimatedHours > daysUntilDue * HoursPerDayLimit * HourUnits THEN 50
    ELSE urgencyMultiplier

\* task.estimatedHours || 1
EstimatedHoursOrDefault(task) ==
    IF task.estimatedHours = 0 THEN DefaultEstimatedHours * HourUnits
    ELSE task.estimatedHours

\* Math.ceil((dueDate.getTime() - now.getTime()) / one day)
DaysUntilDue(task) == CeilDiv(task.dueDate[1] - now, DayTicks)

\* mutant: the score of an undated task grows with its effort
calculatePriority_UndatedByEffort(task) ==
    IF task.dueDate = TBD
    THEN [taskId |-> task.id,
          priority |-> Rat(EstimatedHoursOrDefault(task), 10 * HourUnits),
          urgencyMultiplier |-> 1,
          basePriority |-> Rat(EstimatedHoursOrDefault(task), 10 * HourUnits),
          daysUntilDue |-> Infinity,
          averageHoursPerDay |-> Rat(0, 1)]
    ELSE LET daysUntilDue == DaysUntilDue(task)
             estimatedHours == EstimatedHoursOrDefault(task)
             perDayDen == HourUnits * Max(daysUntilDue, 1)
             averageHoursPerDay == Rat(estimatedHours, perDayDen)
             urgencyMultiplier ==
                 ImpossibleDeadline(UrgencyTier(estimatedHours, daysUntilDue),
                                    estimatedHours, daysUntilDue)
         IN [taskId |-> task.id,
             priority |-> Rat(estimatedHours * urgencyMultiplier, perDayDen),
             urgencyMultiplier |-> urgencyMultiplier,
             basePriority |-> averageHoursPerDay,
             daysUntilDue |-> daysUntilDue,
             averageHoursPerDay |-> averageHoursPerDay]

calculatePriority(task) ==
    IF task.dueDate = TBD
    THEN [taskId |-> task.id,
          priority |-> Rat(1, 10),
          urgencyMultiplier |-> 1,
          basePriority |-> Rat(1, 10),
          daysUntilDue |-> Infinity,
          averageHoursPerDay |-> Rat(0, 1)]
    ELSE LET daysUntilDue == DaysUntilDue(task)
             estimatedHours == EstimatedHoursOrDefault(task)
             perDayDen == HourUnits * Max(daysUntilDue, 1)
             averageHoursPerDay == Rat(estimatedHours, perDayDen)
             urgencyMultiplier ==
                 ImpossibleDeadline(UrgencyTier(estimatedHours, daysUntilDue),
                                    estimatedHours, daysUntilDue)
         IN [taskId |-> task.id,
             priority |-> Rat(estimatedHours * urgencyMultiplier, perDayDen),
             urgencyMultiplier |-> urgencyMultiplier,
             basePriority |-> averageHoursPerDay,
             daysUntilDue |-> daysUntilDue,
             averageHoursPerDay |-> averageHoursPerDay]

----------------------------------------------------------------------------
(* createTaskChunks *)

\* this.config.maxSessionLength / 60, in 1/HourUnits hours
MaxChunkHours == (config.maxSessionLength * HourUnits) \div MinutesPerHour

\* mutant: every chunk gets maxChunkHours, the last one too
RECURSIVE ChunkLoop_NoMin(_, _, _, _)
ChunkLoop_NoMin(task, i, totalChunks, remainingHours) ==
    IF i >= totalChunks THEN <<>>
    ELSE LET chunkHours == MaxChunkHours
         IN << [taskId |-> task.id,
                title |-> IF totalChunks > 1 THEN <<task.id, i + 1, totalChunks>>
                                             ELSE <<task.id>>,
                estimatedHours |-> chunkHours,
                priority |-> Rat(0, 1),
                dueDate |-> task.dueDate,
                chunkIndex |-> i,
                totalChunks |-> totalChunks] >>
            \o ChunkLoop_NoMin(task, i + 1, totalChunks, remainingHours - chunkHours)

\* the for-loop: iteration i with remainingHours left
RECURSIVE ChunkLoop(_, _, _, _)
ChunkLoop(task, i, totalChunks, remainingHours) ==
    IF i >= totalChunks THEN <<>>
    ELSE LET chunkHours == Min(remainingHours, MaxChunkHours)
         IN << [taskId |-> task.id,
                title |-> IF totalChunks > 1 THEN <<task.id, i + 1, totalChunks>>
                                             ELSE <<task.id>>,
                estimatedHours |-> chunkHours,
                priority |-> Rat(0, 1),
                dueDate |-> task.dueDate,
                chunkIndex |-> i,
                totalChunks |-> totalChunks] >>
            \o ChunkLoop(task, i + 1, totalChunks, remainingHours - chunkHours)

createTaskChunks(task) ==
    LET estimatedHours == EstimatedHoursOrDefault(task)
        totalChunks == CeilDiv(estimatedHours, MaxChunkHours)
    IN ChunkLoop(task, 0, totalChunks, estimatedHours)

----------------------------------------------------------------------------
(* findBestTimeSlot and createStudySession *)

\* `${slot.day}-${slot.start}-${slot.end}`
SlotKey(slot) == <<slot.day, slot.start, slot.end>>

\* Math.ceil(chunk.estimatedHours * 60)
ChunkDurationMinutes(chunk) == CeilDiv(chunk.estimatedHours * MinutesPerHour, HourUnits)

\* mutant: the start minute is compared before the day
SlotBefore_StartFirst(a, b) ==
    IF a.start # b.start THEN a.start < b.start
    ELSE IF a.day # b.day THEN a.day < b.day
    ELSE b.duration < a.duration

\* the comparator of suitableSlots.sort: negative when a sorts before b
SlotBefore(a, b) ==
    IF a.day # b.day THEN a.day < b.day
    ELSE IF a.start # b.start THEN a.start < b.start
    ELSE b.duration < a.duration

RECURSIVE InsertByPreference(_, _)
InsertByPreference(sorted, slot) ==
    IF sorted = <<>> THEN <<slot>>
    ELSE IF SlotBefore(slot, Head(sorted)) THEN <<slot>> \o sorted
    ELSE <<Head(sorted)>> \o InsertByPreference(Tail(sorted), slot)

RECURSIVE SortByPreference(_)
SortByPreference(slots) ==
    IF slots = <<>> THEN <<>>
    ELSE InsertByPreference(SortByPreference(SubSeq(slots, 1, Len(slots) - 1)),
                            slots[Len(slots)])

\* mutant: a slot suits only when it is longer than the chunk
RECURSIVE SuitableSlots_Strict(_, _, _, _)
SuitableSlots_Strict(slotsByDay, durationMinutes, used, day) ==
    IF day >= NumDays THEN <<>>
    ELSE LET Suits(slot) == SlotKey(slot) \notin used /\ slot.duration > durationMinutes
         IN SelectSeq(slotsByDay[day], Suits)
            \o SuitableSlots_Strict(slotsByDay, durationMinutes, used, day + 1)

\* the nested for-loops collecting suitableSlots, days from `day` on
RECURSIVE SuitableSlots(_, _, _, _)
SuitableSlots(slotsByDay, durationMinutes, used, day) ==
    IF day >= NumDays THEN <<>>
    ELSE LET Suits(slot) == SlotKey(slot) \notin used /\ slot.duration >= durationMinutes
         IN SelectSeq(slotsByDay[day], Suits)
            \o SuitableSlots(slotsByDay, durationMinutes, used, day + 1)

\* mutant: usedSlots is not consulted
findBestTimeSlot_IgnoringUsed(slotsByDay, durationMinutes, used) ==
    LET suitableSlots == SuitableSlots(slotsByDay, durationMinutes, {}, 0)
    IN IF Len(suitableSlots) = 0 THEN <<>>
       ELSE <<SortByPreference(suitableSlots)[1]>>

\* <<>> models null, <<slot>> the slot returned
findBestTimeSlot(slotsByDay, durationMinutes, used) ==
    LET suitableSlots == SuitableSlots(slotsByDay, durationMinutes, used, 0)
    IN IF Len(suitableSlots) = 0 THEN <<>>
       ELSE <<SortByPreference(suitableSlots)[1]>>

\* Date.setHours(Math.floor(m / 60), m % 60, 0, 0) on weekStartDate + day days,
\* as minutes since weekStartDate 00:00
AtMinuteOfDay(day, m) ==
    day * EndOfDay + (m \div MinutesPerHour) * MinutesPerHour + (m % MinutesPerHour)

\* chunkIndex 0 models undefined (a task that was not split)
createStudySession(chunk, slot) ==
    [taskId |-> chunk.taskId,
     title |-> chunk.title,
     startTime |-> AtMinuteOfDay(slot.day, slot.start),
     endTime |-> AtMinuteOfDay(slot.day, slot.start + ChunkDurationMinutes(chunk)),
     dayOfWeek |-> slot.day,
     chunkIndex |-> IF chunk.totalChunks > 1 THEN chunk.chunkIndex + 1 ELSE 0,
     calculatedPriority |-> chunk.priority]

----------------------------------------------------------------------------
(* generateSchedule *)

\* taskChunks.sort((a, b) => b.priority - a.priority): stable, highest first
\* a sort that puts a chunk before the queued chunks of equal priority
RECURSIVE InsertByPriority_BeforeEqual(_, _)
InsertByPriority_BeforeEqual(sorted, chunk) ==
    IF sorted = <<>> THEN <<chunk>>
    ELSE IF ~RatLess(chunk.priority, Head(sorted).priority) THEN <<chunk>> \o sorted
    ELSE <<Head(sorted)>> \o InsertByPriority_BeforeEqual(Tail(sorted), chunk)

RECURSIVE InsertByPriority(_, _)
InsertByPriority(sorted, chunk) ==
    IF sorted = <<>> THEN <<chunk>>
    ELSE IF RatLess(Head(sorted).priority, chunk.priority) THEN <<chunk>> \o sorted
    ELSE <<Head(sorted)>> \o InsertByPriority(Tail(sorted), chunk)

RECURSIVE SortByPriority(_)
SortByPriority(chunks) ==
    IF chunks = <<>> THEN <<>>
    ELSE InsertByPriority(SortByPriority(SubSeq(chunks, 1, Len(chunks) - 1)),
                          chunks[Len(chunks)])

\* mutant: the filter keeps every task
IsIncomplete_Everything(task) == TRUE

IsIncomplete(task) == ~task.completed

GeneratedSchedule(ss) == << [sessions |-> ss, version |-> 1] >>

\* no incomplete task: the early return
ReturnEmpty ==
    /\ pc = "start"
    /\ Len(SelectSeq(tasks, IsIncomplete)) = 0
    /\ schedule' = GeneratedSchedule(<<>>)
    /\ pc' = "done"
    /\ UNCHANGED <<now, config, tasks, timeBlocks, incompleteTasks, availableSlotsByDay,
                   priorityResults, taskChunks, cursor, sessions, usedSlots>>
    /\ UNCHANGED outer

\* filter, convertTimeBlocksToBusyTimeLists, and the slots of the seven days
ComputeSlots ==
    /\ pc = "start"
    /\ Len(SelectSeq(tasks, IsIncomplete)) # 0
    /\ incompleteTasks' = SelectSeq(tasks, IsIncomplete)
    /\ LET busyTimeLists == convertTimeBlocksToBusyTimeLists(timeBlocks)
       IN availableSlotsByDay' =
              [day \in 0..(NumDays - 1) |->
                  calculateAvailableTimeSlots(busyTimeLists[day], day)]
    /\ cursor' = 1
    /\ pc' = "scoring"
    /\ UNCHANGED <<now, config, tasks, timeBlocks, priorityResults, taskChunks,
                   sessions, usedSlots, schedule>>
    /\ UNCHANGED outer

\* one iteration of "for (const task of incompleteTasks)"
ScoreTask ==
    /\ pc = "scoring"
    /\ cursor <= Len(incompleteTasks)
    /\ LET task == incompleteTasks[cursor]
           priorityResult == calculatePriority(task)
           chunks == createTaskChunks(task)
       IN /\ priorityResults' = Append(priorityResults, priorityResult)
          /\ taskChunks' = taskChunks \o
                 [i \in 1..Len(chunks) |->
                     [chunks[i] EXCEPT !.priority = priorityResult.priority]]
    /\ cursor' = cursor + 1
    /\ UNCHANGED <<now, config, tasks, timeBlocks, pc, incompleteTasks,
                   availableSlotsByDay, sessions, usedSlots, schedule>>
    /\ UNCHANGED outer

\* the global sort of the chunk queue
SortChunks ==
    /\ pc = "scoring"
    /\ cursor > Len(incompleteTasks)
    /\ taskChunks' = SortByPriority(taskChunks)
    /\ cursor' = 1
    /\ pc' = "allocating"
    /\ UNCHANGED <<now, config, tasks, timeBlocks, incompleteTasks, availableSlotsByDay,
                   priorityResults, sessions, usedSlots, schedule>>
    /\ UNCHANGED outer

\* mutant: after a chunk that found no slot the pass starts over
AllocateChunk_StartOver ==
    /\ pc = "allocating"
    /\ cursor <= Len(taskChunks)
    /\ LET chunk == taskChunks[cursor]
           bestSlot == findBestTimeSlot(availableSlotsByDay,
                                        ChunkDurationMinutes(chunk), usedSlots)
       IN IF bestSlot # <<>>
          THEN /\ sessions' = Append(sessions, createStudySession(chunk, bestSlot[1]))
               /\ usedSlots' = usedSlots \cup {SlotKey(bestSlot[1])}
               /\ cursor' = cursor + 1
          ELSE /\ cursor' = 1
               /\ UNCHANGED <<sessions, usedSlots>>
    /\ UNCHANGED <<now, config, tasks, timeBlocks, pc, incompleteTasks,
                   availableSlotsByDay, priorityResults, taskChunks, schedule>>
    /\ UNCHANGED outer

\* one iteration of "for (const chunk of taskChunks)"
AllocateChunk ==
    /\ pc = "allocating"
    /\ cursor <= Len(taskChunks)
    /\ LET chunk == taskChunks[cursor]
           bestSlot == findBestTimeSlot(availableSlotsByDay,
                                        ChunkDurationMinutes(chunk), usedSlots)
       IN IF bestSlot # <<>>
          THEN /\ sessions' = Append(sessions, createStudySession(chunk, bestSlot[1]))
               /\ usedSlots' = usedSlots \cup {SlotKey(bestSlot[1])}
          ELSE UNCHANGED <<sessions, usedSlots>>
    /\ cursor' = cursor + 1
    /\ UNCHANGED <<now, config, tasks, timeBlocks, pc, incompleteTasks,
                   availableSlotsByDay, priorityResults, taskChunks, schedule>>
    /\ UNCHANGED outer

\* the final return
ReturnSchedule ==
    /\ pc = "allocating"
    /\ cursor > Len(taskChunks)
    /\ schedule' = GeneratedSchedule(sessions)
    /\ pc' = "done"
    /\ UNCHANGED <<now, config, tasks, timeBlocks, incompleteTasks, availableSlotsByDay,
                   priorityResults, taskChunks, cursor, sessions, usedSlots>>
    /\ UNCHANGED outer

Next ==
    \/ ReturnEmpty
    \/ ComputeSlots
    \/ ScoreTask
    \/ SortChunks
    \/ AllocateChunk
    \/ ReturnSchedule

----------------------------------------------------------------------------
(* Inputs *)

\* lists of at most n elements of S
ListsUpTo(S, n) == UNION {[1..k -> S] : k \in 0..n}

\* the list of shapes as tasks, the id of a task being its position
WithIds(shapes) ==
    [i \in 1..Len(shapes) |->
        [id |-> i, dueDate |-> shapes[i].dueDate,
         estimatedHours |-> shapes[i].estimatedHours,
         completed |-> shapes[i].completed]]

Shape(d, h, c) == [dueDate |-> d, estimatedHours |-> h, completed |-> c]

\* due now with 2 h; due in ten days with 8 h, 2 h and half an hour; undated;
\* and a completed task
TaskShapes ==
    { Shape(<<0>>, 2 * HourUnits, FALSE),
      Shape(<<10 * DayTicks>>, 8 * HourUnits, FALSE),
      Shape(<<10 * DayTicks>>, 2 * HourUnits, FALSE),
      Shape(<<10 * DayTicks>>, HourUnits \div 2, FALSE),
      Shape(TBD, 2 * HourUnits, FALSE),
      Shape(<<0>>, 2 * HourUnits, TRUE) }

Block(d, s, e, t) == [day |-> d, startTime |-> s, endTime |-> e, type |-> t]

\* on Monday: a morning period, a whole-day period and two periods leaving a
\* 30-minute slot before them; one period on Tuesday; one block that is not busy
BlockShapes ==
    { Block(0, 0, 100, "busy"),
      Block(0, 0, EndOfDay, "busy"),
      Block(0, 40, 100, "busy"),
      Block(0, 40, EndOfDay, "busy"),
      Block(1, 40, 100, "busy"),
      Block(0, 0, EndOfDay, "free") }

LocalsInit ==
    /\ pc = "start"
    /\ incompleteTasks = <<>>
    /\ availableSlotsByDay = [day \in 0..(NumDays - 1) |-> <<>>]
    /\ priorityResults = <<>>
    /\ taskChunks = <<>>
    /\ cursor = 1
    /\ sessions = <<>>
    /\ usedSlots = {}
    /\ schedule = <<>>

\* no earlier call, no request in flight, nothing stored
OuterInit ==
    /\ previous = <<>>
    /\ todos = 0
    /\ generatedSchedules = <<>>
    /\ requests = <<>>
    /\ lastGet = <<>>

Init ==
    /\ now = 0
    /\ config = DEFAULT_SCHEDULING_CONFIG
    /\ tasks \in {WithIds(l) : l \in ListsUpTo(TaskShapes, MaxTasks)}
    /\ timeBlocks \in ListsUpTo(BlockShapes, MaxBlocks)
    /\ LocalsInit
    /\ OuterInit

Spec == Init /\ [][Next]_vars

\* one task of any effort and due date, on a week without busy periods
ScoredShapes ==
    {Shape(d, h, c) :
        d \in {TBD} \cup {<<t>> : t \in 0..(MaxDueDays * DayTicks)},
        h \in 0..(MaxEffortHours * HourUnits),
        c \in BOOLEAN}

InitScore ==
    /\ now \in 0..MaxNow
    /\ config \in {[DEFAULT_SCHEDULING_CONFIG EXCEPT !.maxSessionLength = m] :
                       m \in {MinutesPerHour, 2 * MinutesPerHour}}
    /\ tasks \in {WithIds(<<shape>>) : shape \in ScoredShapes}
    /\ timeBlocks = <<>>
    /\ LocalsInit
    /\ OuterInit

SpecScore == InitScore /\ [][Next]_vars

\* two tasks over a grid of efforts and due dates, on a week without busy
\* periods; or no task at all
PairShapes ==
    {Shape(d, h, FALSE) :
        d \in {TBD} \cup {<<t * DayTicks>> : t \in {0, 1, 2, 5, 10}},
        h \in {0, HourUnits \div 2, 2 * HourUnits, 3 * HourUnits, 8 * HourUnits,
               20 * HourUnits}}

InitPair ==
    /\ now = 0
    /\ config = DEFAULT_SCHEDULING_CONFIG
    /\ tasks \in {<<>>} \cup {WithIds(<<a, b>>) : a \in PairShapes, b \in PairShapes}
    /\ timeBlocks = <<>>
    /\ LocalsInit
    /\ OuterInit

SpecPair == InitPair /\ [][Next]_vars

\* busy periods of Monday and Tuesday over a grid of minutes, with an overdue
\* task of two hours and a task of half an hour, or with nothing left to do
SlotTimes == {0, 40, 100, 1375, 1430, EndOfDay}

GridBlocks ==
    {b \in [day : {0, 1}, startTime : SlotTimes, endTime : SlotTimes, type : {"busy"}] :
        b.startTime < b.endTime}

InitSlots ==
    /\ now = 0
    /\ config = DEFAULT_SCHEDULING_CONFIG
    /\ tasks \in {WithIds(<<Shape(<<10 * DayTicks>>, HourUnits \div 2, FALSE),
                            Shape(<<0>>, 2 * HourUnits, FALSE)>>),
                   WithIds(<<Shape(<<0>>, 2 * HourUnits, TRUE)>>)}
    /\ timeBlocks \in ListsUpTo(GridBlocks, MaxBlocks)
    /\ LocalsInit
    /\ OuterInit

SpecSlots == InitSlots /\ [][Next]_vars

\* two tasks, at most one block, sessions of at most one or two hours; or no
\* task at all
InitLive ==
    /\ now = 0
    /\ config \in {[DEFAULT_SCHEDULING_CONFIG EXCEPT !.maxSessionLength = m] :
                       m \in {MinutesPerHour, 2 * MinutesPerHour}}
    /\ tasks \in {<<>>} \cup {WithIds(<<a, b>>) : a \in TaskShapes, b \in TaskShapes}
    /\ timeBlocks \in {<<>>} \cup {<<b>> : b \in BlockShapes}
    /\ LocalsInit
    /\ OuterInit

\* a call that has started runs on: nothing in generateSchedule awaits or
\* yields, so a statement that can be executed is executed.  This is weak
\* fairness of every action; for SortChunks and AllocateChunk, which always
\* move the cursor, ENABLED is written out as the action's guard.
SpecLive ==
    /\ InitLive /\ [][Next]_vars
    /\ WF_vars(ReturnEmpty) /\ WF_vars(ComputeSlots) /\ WF_vars(ScoreTask)
    /\ WF_vars(ReturnSchedule)
    /\ \/ []<>~(pc = "scoring" /\ cursor > Len(incompleteTasks))
       \/ []<><<SortChunks>>_vars
    /\ \/ []<>~(pc = "allocating" /\ cursor <= Len(taskChunks))
       \/ []<><<AllocateChunk>>_vars

\* mutant: the set of used slots outlives the call
FreshUsedSlots_Kept == usedSlots

\* const usedSlots = new Set<string>(): every call starts with its own set
FreshUsedSlots == {}

\* generateSchedule is called once more on the same engine with the same
\* arguments while the clock stands still; the sessions of the call before
\* are kept aside
CallAgain ==
    /\ pc = "done"
    /\ previous = <<>>
    /\ previous' = <<schedule[1].sessions>>
    /\ pc' = "start"
    /\ incompleteTasks' = <<>>
    /\ availableSlotsByDay' = [day \in 0..(NumDays - 1) |-> <<>>]
    /\ priorityResults' = <<>>
    /\ taskChunks' = <<>>
    /\ cursor' = 1
    /\ sessions' = <<>>
    /\ usedSlots' = FreshUsedSlots
    /\ schedule' = <<>>
    /\ UNCHANGED <<now, config, tasks, timeBlocks, todos, generatedSchedules, requests,
                   lastGet>>

NextAgain ==
    \/ Next
    \/ CallAgain

SpecAgain == InitLive /\ [][NextAgain]_vars

\* a week with two busy hours on every day, and more than twenty hours of
\* work to place, or nothing left to do
WeekBlocks(first, second) ==
    [k \in 1..(2 * NumDays) |->
        IF k % 2 = 1 THEN Block((k - 1) \div 2, first, first + MinutesPerHour, "busy")
                     ELSE Block((k - 1) \div 2, second, second + MinutesPerHour, "busy")]

InitWeek ==
    /\ now = 0
    /\ config = DEFAULT_SCHEDULING_CONFIG
    /\ tasks \in {WithIds(<<Shape(<<0>>, 20 * HourUnits, FALSE),
                            Shape(due, 2 * HourUnits, FALSE)>>) :
                       due \in {TBD, <<0>>, <<10 * DayTicks>>}}
                  \cup {WithIds(<<Shape(<<0>>, 20 * HourUnits, TRUE)>>)}
    /\ timeBlocks \in {WeekBlocks(first, second) :
                           first \in {100, 200}, second \in {400, 500}}
    /\ LocalsInit
    /\ OuterInit

SpecWeek == InitWeek /\ [][Next]_vars

----------------------------------------------------------------------------
(* The routes: POST /:userId/generate and GET /:userId of one user *)

MaxRequests == 2   \* generate requests of the user
MaxEdits == 2      \* changes other clients make to the user's todos

\* the variables of one call of generateSchedule
engine == <<now, config, tasks, timeBlocks, pc, incompleteTasks, availableSlotsByDay,
            priorityResults, taskChunks, cursor, sessions, usedSlots, schedule>>

RequestIdx == 1..Len(requests)

\* a request that has entered the handler and awaits the todos query; at is
\* the await the handler is suspended at
NewRequest ==
    [at |-> "fetchTodos", todosSnapshot |-> <<>>, generatedSchedule |-> <<>>,
     response |-> <<>>]

\* the schedule the engine computes from a snapshot: its sessions are a
\* function of what was read and are written here as the revision of the
\* todos they were computed from
ScheduleOf(todosSnapshot) == GeneratedSchedule(<<todosSnapshot>>)

\* res.json / res.status(..).json
Response(status, success, message, body) ==
    << [status |-> status, success |-> success, message |-> message, schedule |-> body] >>

\* router.post: the handler runs up to its first await
Post ==
    /\ Len(requests) < MaxRequests
    /\ requests' = Append(requests, NewRequest)
    /\ UNCHANGED <<engine, previous, todos, generatedSchedules, lastGet>>

\* await db.collection("todos").where("userId", "==", userId).get()
FetchTodos(r) ==
    /\ requests[r].at = "fetchTodos"
    /\ requests' = [requests EXCEPT ![r].todosSnapshot = <<todos>>,
                                    ![r].at = "fetchTimeBlocks"]
    /\ UNCHANGED <<engine, previous, todos, generatedSchedules, lastGet>>

\* await db.collection("schedules").doc(userId).get()
FetchTimeBlocks(r) ==
    /\ requests[r].at = "fetchTimeBlocks"
    /\ requests' = [requests EXCEPT ![r].at = "generate"]
    /\ UNCHANGED <<engine, previous, todos, generatedSchedules, lastGet>>

\* await schedulingEngine.generateSchedule(userId, todos, timeBlocks, startDate)
Generate(r) ==
    /\ requests[r].at = "generate"
    /\ requests' = [requests EXCEPT
                       ![r].generatedSchedule = ScheduleOf(requests[r].todosSnapshot[1]),
                       ![r].at = "save"]
    /\ UNCHANGED <<engine, previous, todos, generatedSchedules, lastGet>>

\* mutant: a stored schedule computed from newer todos is kept
Saved_KeepNewer(stored, document) ==
    IF stored # <<>> /\ stored[1].sessions[1] > document[1].sessions[1]
    THEN stored ELSE document

\* DocumentReference.set(document): the document replaces what is stored
Saved(stored, document) == document

\* await db.collection("generatedSchedules").doc(userId).set({...})
Save(r) ==
    /\ requests[r].at = "save"
    /\ generatedSchedules' = Saved(generatedSchedules, requests[r].generatedSchedule)
    /\ requests' = [requests EXCEPT ![r].at = "respond"]
    /\ UNCHANGED <<engine, previous, todos, lastGet>>

\* return res.json({success: true, ...})
Respond(r) ==
    /\ requests[r].at = "respond"
    /\ requests' = [requests EXCEPT
                       ![r].response = Response(200, TRUE, "Schedule generated successfully",
                                                requests[r].generatedSchedule),
                       ![r].at = "done"]
    /\ UNCHANGED <<engine, previous, todos, generatedSchedules, lastGet>>

\* mutant: the catch block also deletes the stored schedule
Fail_DropsStored(r) ==
    /\ requests[r].at \in {"fetchTodos", "fetchTimeBlocks", "generate", "save"}
    /\ requests' = [requests EXCEPT
                       ![r].response = Response(500, FALSE, "Failed to generate schedule", <<>>),
                       ![r].at = "done"]
    /\ generatedSchedules' = <<>>
    /\ UNCHANGED <<engine, previous, todos, lastGet>>

\* an awaited call rejects (or generateSchedule throws): the catch block
Fail(r) ==
    /\ requests[r].at \in {"fetchTodos", "fetchTimeBlocks", "generate", "save"}
    /\ requests' = [requests EXCEPT
                       ![r].response = Response(500, FALSE, "Failed to generate schedule", <<>>),
                       ![r].at = "done"]
    /\ UNCHANGED <<engine, previous, todos, generatedSchedules, lastGet>>

\* router.get: the stored schedule, or 404 when there is none
GetSchedule ==
    /\ lastGet' = IF generatedSchedules = <<>>
                  THEN Response(404, FALSE, "No generated schedule found for user", <<>>)
                  ELSE Response(200, TRUE, "Schedule retrieved successfully",
                                generatedSchedules)
    /\ UNCHANGED <<engine, previous, todos, generatedSchedules, requests>>

\* another client of the store changes the user's todos
EditTodos ==
    /\ todos < MaxEdits
    /\ todos' = todos + 1
    /\ UNCHANGED <<engine, previous, generatedSchedules, requests, lastGet>>

NextRoute ==
    \/ Post
    \/ \E r \in RequestIdx : FetchTodos(r)
    \/ \E r \in RequestIdx : FetchTimeBlocks(r)
    \/ \E r \in RequestIdx : Generate(r)
    \/ \E r \in RequestIdx : Save(r)
    \/ \E r \in RequestIdx : Respond(r)
    \/ \E r \in RequestIdx : Fail(r)
    \/ GetSchedule
    \/ EditTodos

\* the server before any request: no call of the engine is modelled inside
InitRoute ==
    /\ now = 0
    /\ config = DEFAULT_SCHEDULING_CONFIG
    /\ tasks = <<>>
    /\ timeBlocks = <<>>
    /\ LocalsInit
    /\ OuterInit

SpecRoute == InitRoute /\ [][NextRoute]_vars

----------------------------------------------------------------------------
(* Shorthands of the properties *)

Days == 0..(NumDays - 1)

SessionIdx == 1..Len(sessions)

ChunkIdx == 1..Len(taskChunks)

\* every slot computed for the week
AllSlots == UNION {{availableSlotsByDay[d][k] : k \in 1..Len(availableSlotsByDay[d])} : d \in Days}

\* the session starts where the slot starts
StartsAt(session, slot) ==
    /\ session.dayOfWeek = slot.day
    /\ session.startTime = slot.day * EndOfDay + slot.start

SessionMinutes(session) == session.endTime - session.startTime

\* the busy-typed blocks of the input
BusyBlocks == {timeBlocks[k] : k \in {n \in 1..Len(timeBlocks) : timeBlocks[n].type = "busy"}}

\* two busy periods of one day that intersect
OverlappingBusy ==
    \E m, n \in 1..Len(timeBlocks) :
        /\ m # n
        /\ timeBlocks[m].type = "busy" /\ timeBlocks[n].type = "busy"
        /\ timeBlocks[m].day = timeBlocks[n].day
        /\ timeBlocks[m].startTime < timeBlocks[n].endTime
        /\ timeBlocks[n].startTime < timeBlocks[m].endTime

----------------------------------------------------------------------------
(* C1: in one run each available slot hosts at most one chunk, also when   *)
(* the chunk used only part of it, and so no two sessions of the schedule  *)
(* share the same (day, start, end) triple.                                *)
C1_SlotExclusivity ==
    /\ \A slot \in AllSlots :
           Cardinality({i \in SessionIdx : StartsAt(sessions[i], slot)}) <= 1
    /\ \A i, j \in SessionIdx :
           i # j => <<sessions[i].dayOfWeek, sessions[i].startTime, sessions[i].endTime>>
                    # <<sessions[j].dayOfWeek, sessions[j].startTime, sessions[j].endTime>>
    /\ schedule # <<>> =>
           \A i, j \in 1..Len(schedule[1].sessions) :
               i # j => <<schedule[1].sessions[i].dayOfWeek,
                          schedule[1].sessions[i].startTime,
                          schedule[1].sessions[i].endTime>>
                        # <<schedule[1].sessions[j].dayOfWeek,
                            schedule[1].sessions[j].startTime,
                            schedule[1].sessions[j].endTime>>

\* a returned schedule in which a session left room in its slot that a later
\* session of the schedule would have fitted into
C1_Witness ==
    /\ pc = "done"
    /\ \E i, j \in SessionIdx :
           /\ i < j
           /\ \E slot \in AllSlots :
                  /\ StartsAt(sessions[i], slot)
                  /\ slot.duration - SessionMinutes(sessions[i]) >= SessionMinutes(sessions[j])

(* C2: the sessions of a schedule do not overlap in time: two sessions of  *)
(* the same day have disjoint intervals [start, end), whatever the busy    *)
(* periods, overlapping ones included.                                     *)
C2_SessionsDisjoint ==
    \A i, j \in SessionIdx :
        (i # j /\ sessions[i].dayOfWeek = sessions[j].dayOfWeek)
            => \/ sessions[i].endTime <= sessions[j].startTime
               \/ sessions[j].endTime <= sessions[i].startTime

\* two sessions on one day of a week whose busy periods overlap on that day
C2_Witness ==
    /\ pc = "done"
    /\ \E i, j \in SessionIdx :
           /\ i # j
           /\ sessions[i].dayOfWeek = sessions[j].dayOfWeek
           /\ \E m, n \in 1..Len(timeBlocks) :
                  /\ m # n
                  /\ timeBlocks[m].type = "busy" /\ timeBlocks[n].type = "busy"
                  /\ timeBlocks[m].day = sessions[i].dayOfWeek
                  /\ timeBlocks[n].day = sessions[i].dayOfWeek
                  /\ timeBlocks[m].startTime < timeBlocks[n].endTime
                  /\ timeBlocks[n].startTime < timeBlocks[m].endTime

(* C3: no session is placed during a busy period: no session of a busy     *)
(* block's day has an interval intersecting [startTime, endTime) of it.    *)
C3_NoSessionDuringBusy ==
    \A i \in SessionIdx : \A b \in BusyBlocks :
        b.day = sessions[i].dayOfWeek
            => \/ sessions[i].endTime <= b.day * EndOfDay + b.startTime
               \/ b.day * EndOfDay + b.endTime <= sessions[i].startTime

----------------------------------------------------------------------------
(* Tasks as the properties read them *)

\* the input task a chunk, a session or a priority result refers to
TaskOf(taskId) == tasks[taskId]

IsDated(task) == task.dueDate # TBD

\* due at or before the current time
IsOverdue(task) == IsDated(task) /\ task.dueDate[1] <= now

IsFuture(task) == IsDated(task) /\ task.dueDate[1] > now

\* the estimated effort in 1/HourUnits hours, one hour when absent
Effort(task) == IF task.estimatedHours = 0 THEN HourUnits ELSE task.estimatedHours

\* whole days from now to the due date, rounded up
DaysLeft(task) == CeilDiv(task.dueDate[1] - now, DayTicks)

Sorted == pc \in {"allocating", "done"}

ResultIdx == 1..Len(priorityResults)

(* C4: a task due at or before now gets urgency multiplier 100, and every  *)
(* chunk of it is queued, allocated and emitted before every chunk of a    *)
(* task with a future due date and equal or smaller effort; an overdue     *)
(* 2-hour task precedes an 8-hour task due in 10 days.                     *)
C4_OverdueFirst ==
    /\ \A k \in ResultIdx :
           IsOverdue(TaskOf(priorityResults[k].taskId))
               => priorityResults[k].urgencyMultiplier = 100
    /\ Sorted =>
           \A a, b \in ChunkIdx :
               LET ta == TaskOf(taskChunks[a].taskId)
                   tb == TaskOf(taskChunks[b].taskId)
               IN (/\ IsOverdue(ta)
                   /\ IsFuture(tb)
                   /\ \/ Effort(tb) <= Effort(ta)
                      \/ /\ Effort(ta) = 2 * HourUnits
                         /\ Effort(tb) = 8 * HourUnits
                         /\ DaysLeft(tb) = 10)
                  => a < b
    /\ \A i, j \in SessionIdx :
           LET ti == TaskOf(sessions[i].taskId)
               tj == TaskOf(sessions[j].taskId)
           IN (/\ IsOverdue(ti)
               /\ IsFuture(tj)
               /\ \/ Effort(tj) <= Effort(ti)
                  \/ /\ Effort(ti) = 2 * HourUnits
                     /\ Effort(tj) = 8 * HourUnits
                     /\ DaysLeft(tj) = 10)
              => i < j

\* the future task comes first in the input, and both tasks got sessions
C4_Witness ==
    /\ pc = "done"
    /\ \E i, j \in SessionIdx :
           /\ IsOverdue(TaskOf(sessions[i].taskId))
           /\ IsFuture(TaskOf(sessions[j].taskId))
           /\ Effort(TaskOf(sessions[j].taskId)) <= Effort(TaskOf(sessions[i].taskId))
           /\ sessions[j].taskId < sessions[i].taskId

\* the multiplier as the tier table with its two overrides
TableMultiplier(h, d) ==
    IF d <= 0 THEN 100
    ELSE IF h > d * 8 * HourUnits THEN 50
    ELSE IF h < 3 * HourUnits /\ d <= 1 THEN 10
    ELSE IF h < 6 * HourUnits /\ d <= 2 THEN 8
    ELSE IF h < 12 * HourUnits /\ d <= 3 THEN 6
    ELSE IF h < 18 * HourUnits /\ d <= 4 THEN 4
    ELSE IF d <= 5 THEN 2
    ELSE 1

(* C5: for a dated task the multiplier is 100 when overdue, else 50 when   *)
(* effort > 8 * daysUntilDue, else the first matching tier; the priority   *)
(* is (effort / max(daysUntilDue, 1)) * multiplier, effort defaulting to 1.*)
C5_PriorityTable ==
    \A k \in ResultIdx :
        LET task == TaskOf(priorityResults[k].taskId)
            r == priorityResults[k]
        IN IsDated(task) =>
               /\ r.daysUntilDue = DaysLeft(task)
               /\ r.urgencyMultiplier = TableMultiplier(Effort(task), DaysLeft(task))
               /\ RatEq(r.priority,
                        <<Effort(task) * TableMultiplier(Effort(task), DaysLeft(task)),
                          HourUnits * Max(DaysLeft(task), 1)>>)
               /\ RatEq(r.basePriority,
                        <<Effort(task), HourUnits * Max(DaysLeft(task), 1)>>)

\* 20 hours due in 1 day scored with multiplier 50
C5_Witness ==
    \E k \in ResultIdx :
        /\ IsDated(TaskOf(priorityResults[k].taskId))
        /\ TaskOf(priorityResults[k].taskId).estimatedHours = 20 * HourUnits
        /\ priorityResults[k].daysUntilDue = 1
        /\ priorityResults[k].urgencyMultiplier = 50

(* C6: a task whose due date is 'TBD' gets priority exactly 0.1, with      *)
(* multiplier 1, basePriority 0.1 and averageHoursPerDay 0, whatever its   *)
(* effort and the current time.                                            *)
C6_UndatedScore ==
    \A k \in ResultIdx :
        ~IsDated(TaskOf(priorityResults[k].taskId)) =>
            /\ priorityResults[k].priority = <<1, 10>>
            /\ priorityResults[k].urgencyMultiplier = 1
            /\ priorityResults[k].basePriority = <<1, 10>>
            /\ priorityResults[k].averageHoursPerDay = <<0, 1>>

\* an undated task of 20 hours scored when the clock is not at its origin
C6_Witness ==
    \E k \in ResultIdx :
        /\ ~IsDated(TaskOf(priorityResults[k].taskId))
        /\ TaskOf(priorityResults[k].taskId).estimatedHours = 20 * HourUnits
        /\ now > 0

(* C7: an undated task is scored lowest: no dated task scores below 0.1,   *)
(* and an undated chunk precedes a dated chunk in the queue only when      *)
(* their scores are equal.                                                 *)
C7_UndatedIsLowest ==
    /\ \A k \in ResultIdx :
           IsDated(TaskOf(priorityResults[k].taskId))
               => ~RatLess(priorityResults[k].priority, <<1, 10>>)
    /\ Sorted =>
           \A a, b \in ChunkIdx :
               (/\ a < b
                /\ ~IsDated(TaskOf(taskChunks[a].taskId))
                /\ IsDated(TaskOf(taskChunks[b].taskId)))
               => RatEq(taskChunks[a].priority, taskChunks[b].priority)

----------------------------------------------------------------------------
(* Chunks and slots as the properties read them *)

\* the chunks of a task, in queue order
ChunksOfTask(taskId) == LET Mine(c) == c.taskId = taskId IN SelectSeq(taskChunks, Mine)

RECURSIVE SumHours(_)
SumHours(chunks) ==
    IF chunks = <<>> THEN 0 ELSE Head(chunks).estimatedHours + SumHours(Tail(chunks))

\* minutes a chunk needs: its hours times 60, rounded up
RequiredMinutes(chunk) == CeilDiv(chunk.estimatedHours * 60, HourUnits)

\* the slots still unclaimed that are long enough for the chunk
Candidates(chunk) ==
    {slot \in AllSlots :
        <<slot.day, slot.start, slot.end>> \notin usedSlots
        /\ slot.duration >= RequiredMinutes(chunk)}

\* earliest day, then earliest start, then longest duration
PreferredOrEqual(s, o) ==
    \/ s.day < o.day
    \/ s.day = o.day /\ s.start < o.start
    \/ s.day = o.day /\ s.start = o.start /\ s.duration >= o.duration

\* the allocation sweep is at a chunk
AtChunk == pc = "allocating" /\ cursor <= Len(taskChunks)

\* the session is the one of the chunk
SessionOf(session, chunk) ==
    /\ session.taskId = chunk.taskId
    /\ session.chunkIndex = IF chunk.totalChunks > 1 THEN chunk.chunkIndex + 1 ELSE 0

(* C8: a task of effort h (1 when absent) is split, with m =               *)
(* maxSessionLength / 60 hours, into ceil(h / m) chunks numbered 0..n-1    *)
(* with totalChunks n; every chunk is at most m, all but the last are m,   *)
(* and the chunks' hours sum to h.                                         *)
C8_Chunking ==
    \A k \in ResultIdx :
        LET task == TaskOf(priorityResults[k].taskId)
            chunks == ChunksOfTask(task.id)
            n == CeilDiv(Effort(task) * 60, config.maxSessionLength * HourUnits)
        IN /\ Len(chunks) = n
           /\ SumHours(chunks) = Effort(task)
           /\ \A i \in 1..Len(chunks) :
                  /\ chunks[i].chunkIndex = i - 1
                  /\ chunks[i].totalChunks = n
                  /\ chunks[i].estimatedHours * 60 <= config.maxSessionLength * HourUnits
                  /\ i < n => chunks[i].estimatedHours * 60
                                  = config.maxSessionLength * HourUnits

\* 4 hours with maxSessionLength 60: four chunks of one hour
C8_Witness ==
    \E k \in ResultIdx :
        /\ config.maxSessionLength = 60
        /\ TaskOf(priorityResults[k].taskId).estimatedHours = 4 * HourUnits
        /\ Len(ChunksOfTask(priorityResults[k].taskId)) = 4
        /\ \A i \in 1..4 :
               ChunksOfTask(priorityResults[k].taskId)[i].estimatedHours = HourUnits

(* C9: the slot a chunk is given is the least, by (earliest day, earliest  *)
(* start, longest duration), of all unclaimed slots of the week that are   *)
(* at least as long as the chunk needs.                                    *)
C9_LeastFittingSlot ==
    [][ (AtChunk /\ Candidates(taskChunks[cursor]) # {}) =>
            \E slot \in Candidates(taskChunks[cursor]) :
                /\ \A other \in Candidates(taskChunks[cursor]) :
                       PreferredOrEqual(slot, other)
                /\ Len(sessions') = Len(sessions) + 1
                /\ StartsAt(sessions'[Len(sessions')], slot)
                /\ usedSlots' = usedSlots \cup {<<slot.day, slot.start, slot.end>>}
      ]_vars

\* a session sits in a slot while an earlier slot of the week is unclaimed
C9_Witness ==
    \E i \in SessionIdx : \E slot, early \in AllSlots :
        /\ StartsAt(sessions[i], slot)
        /\ early # slot
        /\ PreferredOrEqual(early, slot)
        /\ <<early.day, early.start, early.end>> \notin usedSlots

\* slots long enough for every chunk of the queue
RoomyEnough ==
    Cardinality({slot \in AllSlots :
                    \A c \in ChunkIdx : slot.duration >= RequiredMinutes(taskChunks[c])})
        >= Len(taskChunks)

(* C10: a chunk yields a session exactly when, at its turn, an unclaimed   *)
(* slot is long enough for it; otherwise it is dropped, nothing else       *)
(* changes and the sweep goes on to the next chunk.  When the week has as  *)
(* many slots long enough for every chunk as there are chunks, every chunk *)
(* is scheduled.                                                           *)
C10_PlacedIffFits ==
    [][ /\ AtChunk =>
            /\ cursor' = cursor + 1
            /\ pc' = pc
            /\ taskChunks' = taskChunks
            /\ IF Candidates(taskChunks[cursor]) # {}
               THEN /\ Len(sessions') = Len(sessions) + 1
                    /\ SubSeq(sessions', 1, Len(sessions)) = sessions
                    /\ SessionOf(sessions'[Len(sessions')], taskChunks[cursor])
                    /\ SessionMinutes(sessions'[Len(sessions')])
                           = RequiredMinutes(taskChunks[cursor])
               ELSE sessions' = sessions /\ usedSlots' = usedSlots
        /\ (pc = "allocating" /\ pc' = "done" /\ RoomyEnough) =>
               /\ Len(schedule'[1].sessions) = Len(taskChunks)
               /\ \A c \in ChunkIdx : \E i \in 1..Len(schedule'[1].sessions) :
                      SessionOf(schedule'[1].sessions[i], taskChunks[c])
      ]_vars

\* a chunk was dropped and a chunk after it in the queue was placed
C10_Witness ==
    /\ pc = "done"
    /\ \E a, b \in ChunkIdx :
           /\ a < b
           /\ ~\E i \in SessionIdx : SessionOf(sessions[i], taskChunks[a])
           /\ \E i \in SessionIdx : SessionOf(sessions[i], taskChunks[b])

\* every chunk of a roomy week was scheduled, several of them
C10_WitnessAll ==
    /\ pc = "done"
    /\ RoomyEnough
    /\ Len(taskChunks) > 2
    /\ Len(sessions) = Len(taskChunks)

----------------------------------------------------------------------------
\* the priority score calculatePriority gave the task
ScoreOf(taskId) ==
    LET k == CHOOSE n \in ResultIdx : priorityResults[n].taskId = taskId
    IN priorityResults[k].priority

\* the place in the queue of the chunk a session was made from
QueuePlace(session) ==
    CHOOSE a \in ChunkIdx :
        /\ taskChunks[a].taskId = session.taskId
        /\ \/ session.chunkIndex = 0
           \/ session.chunkIndex = taskChunks[a].chunkIndex + 1

(* C11: the chunks of all tasks are allocated in one global order, by      *)
(* descending priority score, ties kept in insertion order (input task     *)
(* order, then ascending chunk index); every chunk carries its task's      *)
(* score unchanged, so the sessions of the returned schedule come in       *)
(* non-increasing calculatedPriority order.                                *)
C11_GlobalPriorityOrder ==
    /\ Sorted =>
           /\ \A a \in ChunkIdx :
                  RatEq(taskChunks[a].priority, ScoreOf(taskChunks[a].taskId))
           /\ \A a, b \in ChunkIdx :
                  a < b =>
                      /\ ~RatLess(taskChunks[a].priority, taskChunks[b].priority)
                      /\ RatEq(taskChunks[a].priority, taskChunks[b].priority) =>
                             \/ taskChunks[a].taskId < taskChunks[b].taskId
                             \/ /\ taskChunks[a].taskId = taskChunks[b].taskId
                                /\ taskChunks[a].chunkIndex < taskChunks[b].chunkIndex
           /\ \A i, j \in SessionIdx :
                  i < j =>
                      /\ QueuePlace(sessions[i]) < QueuePlace(sessions[j])
                      /\ QueuePlace(sessions[j]) < cursor
                      /\ ~RatLess(sessions[i].calculatedPriority,
                                  sessions[j].calculatedPriority)
           /\ \A i \in SessionIdx :
                  RatEq(sessions[i].calculatedPriority, ScoreOf(sessions[i].taskId))
    /\ schedule # <<>> =>
           \A i, j \in 1..Len(schedule[1].sessions) :
               i < j => ~RatLess(schedule[1].sessions[i].calculatedPriority,
                                 schedule[1].sessions[j].calculatedPriority)

\* a returned schedule with sessions of two tasks of equal score, and one
\* whose second input task outranks the first
C11_Witness ==
    /\ pc = "done"
    /\ Len(incompleteTasks) = 2
    /\ \E i, j \in SessionIdx :
           /\ i < j
           /\ sessions[i].taskId # sessions[j].taskId
           /\ \/ /\ RatEq(sessions[i].calculatedPriority, sessions[j].calculatedPriority)
                 /\ sessions[i].chunkIndex > 1
              \/ /\ sessions[i].taskId > sessions[j].taskId
                 /\ RatLess(sessions[j].calculatedPriority, sessions[i].calculatedPriority)

----------------------------------------------------------------------------
\* the busy periods of a day as the sweep takes them, in ascending start order
PeriodsOf(day) == SortByFirst(convertTimeBlocksToBusyTimeLists(timeBlocks)[day])

\* currentTime before the k-th period of the day: 0, then the end of the
\* period before
CurBefore(day, k) == IF k = 1 THEN 0 ELSE PeriodsOf(day)[k - 1][2]

\* currentTime after the last period of the day
CurAfterAll(day) ==
    IF PeriodsOf(day) = <<>> THEN 0 ELSE PeriodsOf(day)[Len(PeriodsOf(day))][2]

\* the periods of the day before which a slot is due
GapsOf(day) ==
    {k \in 1..Len(PeriodsOf(day)) :
        PeriodsOf(day)[k][1] - CurBefore(day, k) - 2 * config.bufferTime
            >= config.minSessionLength}

HasFinalSlot(day) ==
    EndOfDay - CurAfterAll(day) - config.bufferTime >= config.minSessionLength

\* the [start, end] pairs the day's slots are to have
DueSlots(day) ==
    {<<CurBefore(day, k) + config.bufferTime, PeriodsOf(day)[k][1] - config.bufferTime>> :
        k \in GapsOf(day)}
    \cup (IF HasFinalSlot(day)
          THEN {<<CurAfterAll(day) + config.bufferTime, EndOfDay - config.bufferTime>>}
          ELSE {})

SlotsComputed == pc # "start" /\ incompleteTasks # <<>>

(* C12: calculateAvailableTimeSlots, with cur = 0 at first and cur = the   *)
(* period's end after each period, emits for each period the slot          *)
(* [cur + bufferTime, periodStart - bufferTime] exactly when periodStart   *)
(* - cur - 2 * bufferTime >= minSessionLength, and after the last period   *)
(* the slot [cur + bufferTime, 1440 - bufferTime] exactly when 1440 - cur  *)
(* - bufferTime >= minSessionLength; the slots come out ordered by start,  *)
(* and a day covered by one busy period 0..1440 yields no slot while the   *)
(* other days are unaffected.                                              *)
C12_SlotsOfTheSweep ==
    SlotsComputed =>
        \A day \in Days :
            LET slots == availableSlotsByDay[day]
            IN /\ {<<slots[i].start, slots[i].end>> : i \in 1..Len(slots)} = DueSlots(day)
               /\ Len(slots) = Cardinality(GapsOf(day))
                                   + (IF HasFinalSlot(day) THEN 1 ELSE 0)
               /\ \A i \in 1..Len(slots) : slots[i].day = day
               /\ \A i, j \in 1..Len(slots) : i < j => slots[i].start < slots[j].start
               /\ PeriodsOf(day) = << <<0, EndOfDay>> >> => slots = <<>>
               /\ PeriodsOf(day) = <<>> =>
                      /\ Len(slots) = 1
                      /\ slots[1].start = config.bufferTime
                      /\ slots[1].end = EndOfDay - config.bufferTime

\* Monday is one busy period 0..1440 and has no slot, Tuesday has a slot
\* before a busy period and the slot after it, a later day has its one slot
C12_Witness ==
    /\ SlotsComputed
    /\ PeriodsOf(0) = << <<0, EndOfDay>> >>
    /\ availableSlotsByDay[0] = <<>>
    /\ GapsOf(1) # {}
    /\ Len(availableSlotsByDay[1]) = 2
    /\ Len(availableSlotsByDay[2]) = 1

----------------------------------------------------------------------------
NothingToDo == \A k \in 1..Len(tasks) : tasks[k].completed

(* C13: completed tasks never produce sessions: every session's taskId is  *)
(* that of an incomplete input task; and with no incomplete task           *)
(* generateSchedule returns the empty session list and version 1 whatever  *)
(* the busy periods, without slot computation, scoring, chunking or        *)
(* allocation.                                                             *)
C13_CompletedTasksSkipped ==
    /\ \A i \in SessionIdx : ~TaskOf(sessions[i].taskId).completed
    /\ \A a \in ChunkIdx : ~TaskOf(taskChunks[a].taskId).completed
    /\ \A k \in ResultIdx : ~TaskOf(priorityResults[k].taskId).completed
    /\ schedule # <<>> =>
           \A i \in 1..Len(schedule[1].sessions) :
               ~TaskOf(schedule[1].sessions[i].taskId).completed
    /\ NothingToDo =>
           /\ pc \in {"start", "done"}
           /\ \A day \in Days : availableSlotsByDay[day] = <<>>
           /\ priorityResults = <<>>
           /\ taskChunks = <<>>
           /\ sessions = <<>>
           /\ usedSlots = {}
           /\ pc = "done" => schedule = << [sessions |-> <<>>, version |-> 1] >>

\* the early return on a week with busy periods and only completed tasks
C13_Witness ==
    /\ pc = "done"
    /\ tasks # <<>>
    /\ NothingToDo
    /\ BusyBlocks # {}
    /\ schedule = << [sessions |-> <<>>, version |-> 1] >>

----------------------------------------------------------------------------
\* request r completes its write in this step
Saves(r) == requests[r].at = "save" /\ requests'[r].at = "respond"

\* request r lands in the catch block in this step
Fails(r) == requests[r].at # "done" /\ requests'[r].at = "done" /\ ~requests'[r].response[1].success

(* C14: generate requests of one user are not isolated: the stored         *)
(* schedule is simply the one written last, whatever is stored and also    *)
(* when it was computed from an older snapshot than another request read   *)
(* (lost update); version is 1 in every stored schedule, never incremented *)
(* or compared.                                                            *)
C14_LastWriteWins ==
    [][ /\ \A r \in RequestIdx :
               Saves(r) => generatedSchedules' = requests[r].generatedSchedule
        /\ generatedSchedules' # <<>> => generatedSchedules'[1].version = 1 ]_vars

\* both requests wrote and answered; the stored schedule is the one computed
\* from the older todos, the other request having read newer ones
C14_Witness ==
    \E a, b \in RequestIdx :
        /\ requests[a].at = "done" /\ requests[a].response[1].success
        /\ requests[b].at = "done" /\ requests[b].response[1].success
        /\ requests[a].todosSnapshot[1] < requests[b].todosSnapshot[1]
        /\ generatedSchedules = requests[a].generatedSchedule
        /\ generatedSchedules # requests[b].generatedSchedule

(* C20: the stored schedule is replaced only by a generate request that    *)
(* runs to completion: a request failing at any step before the write is   *)
(* caught and answered with a failure response carrying a message, and the *)
(* stored schedule is unchanged, so a later read returns the old schedule  *)
(* (or not-found).                                                         *)
C20_FailureLeavesStored ==
    [][ /\ generatedSchedules' # generatedSchedules =>
               \E r \in RequestIdx :
                   /\ Saves(r)
                   /\ requests[r].todosSnapshot # <<>>
                   /\ requests[r].generatedSchedule # <<>>
                   /\ generatedSchedules' = requests[r].generatedSchedule
        /\ \A r \in RequestIdx :
               Fails(r) =>
                   /\ generatedSchedules' = generatedSchedules
                   /\ requests'[r].response[1].status = 500
                   /\ requests'[r].response[1].message = "Failed to generate schedule"
        /\ \A r \in RequestIdx :
               (requests'[r].at = "done" /\ requests'[r].response[1].success) =>
                   requests'[r].generatedSchedule # <<>>
        /\ lastGet' # lastGet =>
               /\ generatedSchedules' = generatedSchedules
               /\ lastGet'[1].schedule = generatedSchedules
               /\ lastGet'[1].status = IF generatedSchedules = <<>> THEN 404 ELSE 200 ]_vars

\* a request that read newer todos failed before its write; the schedule an
\* earlier request stored is still there and is what the latest read returned
C20_Witness ==
    \E a, b \in RequestIdx :
        /\ requests[a].at = "done" /\ requests[a].response[1].success
        /\ requests[b].at = "done" /\ ~requests[b].response[1].success
        /\ requests[b].todosSnapshot # <<>>
        /\ requests[b].todosSnapshot[1] > requests[a].todosSnapshot[1]
        /\ generatedSchedules = requests[a].generatedSchedule
        /\ lastGet # <<>>
        /\ lastGet[1].status = 200
        /\ lastGet[1].schedule = generatedSchedules

----------------------------------------------------------------------------
RECURSIVE SumMinutes(_)
SumMinutes(ss) ==
    IF ss = <<>> THEN 0 ELSE SessionMinutes(Head(ss)) + SumMinutes(Tail(ss))

(* C15: the total length of all sessions of a generated schedule never     *)
(* exceeds config.maxStudyHoursPerWeek hours (20 by default).              *)
C15_WeeklyStudyCap ==
    /\ SumMinutes(sessions) <= config.maxStudyHoursPerWeek * MinutesPerHour
    /\ schedule # <<>> =>
           SumMinutes(schedule[1].sessions) <= config.maxStudyHoursPerWeek * MinutesPerHour

----------------------------------------------------------------------------
(* C16: every scheduled session is at least config.minSessionLength        *)
(* minutes long (5 by default).                                            *)
C16_MinimumSessionLength ==
    /\ \A i \in SessionIdx : SessionMinutes(sessions[i]) >= config.minSessionLength
    /\ schedule # <<>> =>
           \A i \in 1..Len(schedule[1].sessions) :
               SessionMinutes(schedule[1].sessions[i]) >= config.minSessionLength

----------------------------------------------------------------------------
\* the session lies within the slot it was placed in
WithinSlot(session, slot) ==
    /\ session.startTime = AtMinuteOfDay(slot.day, slot.start)
    /\ session.endTime <= AtMinuteOfDay(slot.day, slot.end)

(* C19: every slot calculateAvailableTimeSlots produces, interior or       *)
(* final, has duration = end - start, so an accepted chunk gives a session *)
(* that starts at slot.start and ends at or before slot.end.               *)
C19_SlotDurationIsItsLength ==
    /\ \A slot \in AllSlots : slot.duration = slot.end - slot.start
    /\ \A i \in SessionIdx :
           \E slot \in AllSlots :
               StartsAt(sessions[i], slot) /\ WithinSlot(sessions[i], slot)

----------------------------------------------------------------------------
\* the stages follow one another: slots, then scoring and chunking, then
\* the allocation pass, then the return
StageOrder ==
    /\ pc' # pc => <<pc, pc'>> \in {<<"start", "scoring">>, <<"start", "done">>,
                                     <<"scoring", "allocating">>, <<"allocating", "done">>}
    /\ availableSlotsByDay' # availableSlotsByDay => pc = "start"
    /\ (priorityResults' # priorityResults \/ taskChunks' # taskChunks) => pc = "scoring"
    /\ (sessions' # sessions \/ usedSlots' # usedSlots) => pc = "allocating"
    /\ schedule' # schedule => pc' = "done"

\* the allocation pass moves over the sorted queue one chunk at a time and
\* never goes back
SinglePass ==
    (pc = "allocating" /\ pc' = "allocating") =>
        /\ cursor' = cursor + 1
        /\ cursor <= Len(taskChunks)
        /\ taskChunks' = taskChunks
        /\ Len(sessions') <= Len(sessions) + 1

----------------------------------------------------------------------------
\* the fields of a session other than its id
SameSession(a, b) ==
    /\ a.dayOfWeek = b.dayOfWeek
    /\ a.startTime = b.startTime
    /\ a.endTime = b.endTime
    /\ a.title = b.title
    /\ a.taskId = b.taskId
    /\ a.chunkIndex = b.chunkIndex
    /\ RatEq(a.calculatedPriority, b.calculatedPriority)

====
